---- MODULE Spec2Model ----
(***************************************************************************)
(* The observation uploader of inat_fetcher/src/pusher.py: run() creates   *)
(* one iNaturalist observation per eligible CSV row, attaches the photos   *)
(* of the sample's folder one by one and keeps its progress in a JSON      *)
(* state file.                                                             *)
(*                                                                         *)
(* One behaviour is a sequence of runs of run() over the same CSV, the     *)
(* same photo folders and the same state file, against one remote service. *)
(* A run can be killed between any two steps.  Every remote call (tag      *)
(* search, create, photo count, photo upload, vote) answers with one of    *)
(* the outcomes the service can give: it succeeds, it raises, it raises    *)
(* after having taken effect remotely, or it reads a lagging index.        *)
(*                                                                         *)
(* Scope: runs that are given a state file (main() always passes one),     *)
(* with verify off (its default); local files can be read and the state    *)
(* file can be written.  The uuid of a record is stored and dropped        *)
(* together with its id and is not modelled apart from it.  A record's id  *)
(* is its rank among the records carrying the sample's tag.  The rows and  *)
(* folders are inputs that never change; the model draws each field of     *)
(* them when a run first reads it.  The sample ids of the rows are         *)
(* distinct.  The number of remote calls that fail or lag, and of kills,   *)
(* in one behaviour is bounded by MaxFaults.                               *)
(*                                                                         *)
(* Spec starts with no state file.  SpecLoad starts from a state file of   *)
(* any content: text that does not parse, JSON that is not an object, an   *)
(* object some of whose entries are not objects, or no entries at all.     *)
(***************************************************************************)
EXTENDS Integers, Sequences, FiniteSets, TLC

\* ------------------------------------------------------------- bounds
NumSamples == 2
MaxPhotos == 2
MaxRuns == 2
MaxPolls == 2
MaxRecords == 2
MaxFaults == 2
\* upload_retries, a parameter of run()
UploadRetries == 1
\* the longest text of a sample id or project cell
MaxIdLen == 2
\* the most rows of the CSV where the filter and the limit are followed
MaxRows == 3

Samples == 1..NumSamples
Contents == 1..MaxPhotos

VARIABLES
    run,        \* number of runs started so far
    pc,         \* position of the running run() ("idle": no run in progress)
    cfg,        \* the parameters of the current run
    idx,        \* index of the current row in `filtered`
    input,      \* per sample: the CSV row and the photo folder
    state,      \* the in-memory `state` dict of the current run
    file,       \* the content of the state file
    remote,     \* per sample: the remote records carrying its tag, each a bag
                \* of the photo contents attached to it
    votes,      \* per sample and record: the wild/captive vote requests sent
    loc,        \* local variables of the loop body
    faults,     \* failed or lagging remote calls and kills so far
    shape,      \* what kind of JSON value the state file holds and `state` is
    wrote,      \* the last step of the run ended with a write of the state file
    \* history variables (not read by the program), about the sample `cur`
    cur,        \* the sample the loop body last started on (0: none in this run)
    entry0,     \* its entry in the state dict when the loop body started on it
    nCreate,    \* create_observation calls made for it in this run
    uploads,    \* files passed to upload_media for it in this run, in call order
    searched,   \* a tag search was made for it in this run
    outcome,    \* how its processing ended ("none": in progress)
    trouble,    \* some remote call made for it in this run failed or lagged
    lastSearch, \* what the most recent tag search for it returned (0: nothing)
    lastCount,  \* what the most recent photo count query for cur returned
    \* history variables over runs
    unguarded,  \* per sample: a run processed it without remote dedupe or
                \* without index wait, or a tag search for it failed or missed
    runErr,     \* some sample of the current run ended in the except clause
    prevClean,  \* the previous run was not a dry run, returned, and no sample
                \* of it ended in the except clause
    abort,      \* the exception that ended the last run early ("none": it was
                \* killed, it returned, or it is in progress)
    \* one CSV row taken through to_row_data, the filter, build_params and
    \* resolve_lat_lon_from_xy (SpecPure)
    pin,        \* the cells of the row and the parameters
    pout        \* what has been computed from them so far

runVars == <<run, pc, cfg, idx, input, state, file, remote, votes, loc, faults, shape,
             wrote, cur, entry0, nCreate, uploads, searched, outcome, trouble,
             lastSearch, lastCount, unguarded, runErr, prevClean, abort>>

pureVars == <<pin, pout>>

vars == <<runVars, pureVars>>

\* ------------------------------------------------------------- inputs

\* File names img<FileNum(j)>.jpg: 2, 10, 20, ... so that the natural order
\* (2 < 10 < 20) is not the order of the names as strings ("10" < "2" < "20").
FileNum(j) == IF j = 1 THEN 2 ELSE 10 * (j - 1)

MaxOf(S) == CHOOSE m \in S : \A x \in S : x <= m

\* Contents of k files, up to renaming: content ids appear in first-use order.
Growth(k) ==
    {c \in [1..k -> 1..k] :
        \A j \in 1..k : c[j] <= 1 + MaxOf({0} \cup {c[m] : m \in 1..(j - 1)})}

Folders ==
    UNION {{{[num |-> FileNum(j), content |-> c[j]] : j \in 1..k} : c \in Growth(k)} :
            k \in 0..MaxPhotos}

IsWildVals == {"None", "1"}

\* a row of which nothing has been read yet
UnreadRow ==
    [known |-> {}, folder |-> {}, coords_ok |-> FALSE, is_wild |-> "None",
     flags_ok |-> TRUE]

\* the rows that agree with `row` on what is known of it and make `fs` known
Reveal(row, fs) ==
    {r \in [known : {row.known \cup fs}, folder : Folders, coords_ok : BOOLEAN,
            is_wild : IsWildVals, flags_ok : {row.flags_ok}] :
        /\ r.folder = row.folder \/ ("folder" \in fs /\ "folder" \notin row.known)
        /\ r.coords_ok = row.coords_ok \/ ("coords" \in fs /\ "coords" \notin row.known)
        /\ r.is_wild = row.is_wild \/ ("is_wild" \in fs /\ "is_wild" \notin row.known)}

\* token: os.getenv(ENV_TOKEN_KEY) is set and not empty
Configs ==
    [dedupe_remote : BOOLEAN, dry_run : BOOLEAN, index_wait : BOOLEAN, token : BOOLEAN]

\* the parameters' defaults, but for the index wait (True: index_wait_seconds > 0)
DefaultConfig ==
    [dedupe_remote |-> TRUE, dry_run |-> TRUE, index_wait |-> TRUE, token |-> TRUE]

\* to_row_data(r) of every row: int() of the upload and wild flags raises on a
\* cell that is not a number.  `ok` tells, row by row, whether it converts.
ReadCsv(ok) ==
    [s \in Samples |->
        [input[s] EXCEPT !.known = @ \cup {"flags"}, !.flags_ok = ok[s]]]

CsvReadings ==
    {ok \in [Samples -> BOOLEAN] :
        \A s \in Samples : "flags" \in input[s].known => ok[s] = input[s].flags_ok}

\* ------------------------------------------------------------- pure helpers

\* the decimal digits of n, most significant first: the digit run in the
\* name img<n>.jpg
RECURSIVE Digits(_)
Digits(n) == IF n < 10 THEN <<n>> ELSE Append(Digits(n \div 10), n % 10)

\* int(t) of a digit run t
RECURSIVE IntOf(_)
IntOf(t) == IF t = <<>> THEN 0 ELSE 10 * IntOf(SubSeq(t, 1, Len(t) - 1)) + t[Len(t)]

\* natural_key of a file name: ["img", int(digit run), ".jpg"]; the names
\* differ in the digit run only
NaturalKey(f) == IntOf(Digits(f.num))

\* order of two digit strings as strings
RECURSIVE StrLess(_, _)
StrLess(a, b) ==
    IF a = <<>> THEN b # <<>>
    ELSE IF b = <<>> THEN FALSE
    ELSE IF Head(a) # Head(b) THEN Head(a) < Head(b)
    ELSE StrLess(Tail(a), Tail(b))

LexLess(f, g) == StrLess(Digits(f.num), Digits(g.num))
\* sorted(paths, key=natural_key)
NaturalLess(f, g) == NaturalKey(f) < NaturalKey(g)

CollectPhotosLex(folder) ==
    CHOOSE q \in [1..Cardinality(folder) -> folder] :
        \A a, b \in 1..Cardinality(folder) : a < b => LexLess(q[a], q[b])
\* collect_photos: the files of the folder sorted by natural_key
CollectPhotos(folder) ==
    CHOOSE q \in [1..Cardinality(folder) -> folder] :
        \A a, b \in 1..Cardinality(folder) : a < b => NaturalLess(q[a], q[b])

\* _sha256_file: the digest identifies the content
Sha256File(f) == <<"sha256", f.content>>

PhotosList(s) == CollectPhotos(input[s].folder)
LocalTotal(s) == Len(PhotosList(s))
AllHashes(s) == {Sha256File(PhotosList(s)[j]) : j \in 1..LocalTotal(s)}

\* ------------------------------------------------------------- state store

NoEntry == [present |-> FALSE, id |-> 0, uploaded_photos |-> {}, complete |-> FALSE]

\* {"id": ..., "uuid": ...}: an entry holding an id and nothing else
IdEntry(k) == [present |-> TRUE, id |-> k, uploaded_photos |-> {}, complete |-> FALSE]

\* state.setdefault(sid, {}); state[sid].update({"id": ..., "uuid": ...})
WithId(e, k) == [e EXCEPT !.present = TRUE, !.id = k]

SkipCompleteNever(e) == FALSE
\* rowd.sample_id in state and state[rowd.sample_id].get("complete") is True
SkipComplete(e) == e.present /\ e.complete

\* What the text of the state file is: a JSON object, text that json.loads
\* rejects (an empty or cut-off file too), a JSON null, number or boolean, or
\* a JSON array or string.  `file` holds the entries of an object that are
\* objects; fbad names the samples whose entry is some other JSON value.
\* mkind and mbad tell the same of the value of `state` in memory.
FileKinds == {"object", "unparseable", "scalar", "list"}

\* no state file, or one holding an object all of whose entries are objects
PlainShape == [fkind |-> "object", fbad |-> {}, mkind |-> "dict", mbad |-> {}]

FileShapes ==
    {sh \in [fkind : FileKinds, fbad : SUBSET Samples, mkind : {"dict"}, mbad : {{}}] :
        sh.fbad # {} => sh.fkind = "object"}

\* state = {}; state = json.loads(state_file.read_text()), and state = {} in
\* the except clause
Loaded(sh) ==
    [sh EXCEPT !.mkind = IF sh.fkind \in {"object", "unparseable"} THEN "dict"
                         ELSE sh.fkind,
               !.mbad = IF sh.fkind = "object" THEN sh.fbad ELSE {}]

\* state_file.write_text(json.dumps(state, indent=2)), once it has returned
Dumped(sh) ==
    [sh EXCEPT !.fkind = IF sh.mkind = "dict" THEN "object" ELSE sh.mkind,
               !.fbad = sh.mbad]

\* the process is gone: only the file is left
AtRest(sh) == [sh EXCEPT !.mkind = "dict", !.mbad = {}]

\* write_text opens the file for writing, which empties it, and then writes
\* the text: a process killed inside the call leaves an empty or cut-off file
TornShape == [fkind |-> "unparseable", fbad |-> {}, mkind |-> "dict", mbad |-> {}]
TornOutcomes(w) == IF w THEN BOOLEAN ELSE {FALSE}

\* `rowd.sample_id in state` raises on a value that is no container, and
\* `state[rowd.sample_id].get` on an entry that is no object
StateRaises(sh, s) == sh.mkind = "scalar" \/ (sh.mkind = "dict" /\ s \in sh.mbad)

\* state[sid] = {...} and state.setdefault(sid, {}) raise on an array or a
\* string
StoreRaises(sh) == sh.mkind # "dict"

\* ------------------------------------------------------------- remote service

SearchOutcomes == {"ok", "miss", "raise"}
CallOutcomes == {"ok", "lost", "fail"}
CountOutcomes == {"ok", "stale", "fail"}
VoteOutcomes == {"ok", "status", "raise"}

\* a record without photos
NewRecord == [c \in Contents |-> 0]

RECURSIVE SumOver(_, _)
SumOver(f, S) ==
    IF S = {} THEN 0
    ELSE LET x == CHOOSE y \in S : TRUE IN f[x] + SumOver(f, S \ {x})

\* the number of photos of record k of sample s
RemoteCount(s, k) == SumOver(remote[s][k], Contents)

\* What a tag search for sample s can return: 0 for no result, else the id
\* of the first result.
SearchResults(s, o) ==
    IF o = "ok" /\ Len(remote[s]) > 0 THEN 1..Len(remote[s]) ELSE {0}

\* _get_photo_count: the number of photos read, -1 when the query fails
GetPhotoCount(n, o) ==
    IF o = "fail" THEN -1
    ELSE IF o = "stale" /\ n > 0 THEN n - 1
    ELSE n

\* ------------------------------------------------------------- one CSV row
\* to_row_data, the filter of run(), resolve_lat_lon_from_xy and build_params
\* applied to one row, whatever its cells hold.

\* the characters a cell is made of: a letter, a blank, a comma
Chars == {"a", " ", ","}

\* the texts of at most n characters
Texts(n) == UNION {[1..k -> Chars] : k \in 0..n}

\* a cell as pandas hands it over: NaN for an empty cell, else its text (the
\* empty text: the column is absent and row.get returns its default "")
NaN == [nan |-> TRUE, s |-> <<>>]
Cell(t) == [nan |-> FALSE, s |-> t]
TextCells == {NaN} \cup {Cell(t) : t \in Texts(MaxIdLen)}

\* an Optional[float]
None == [some |-> FALSE, v |-> 0]
Some(n) == [some |-> TRUE, v |-> n]
CoordValues == {None, Some(7), Some(46)}

PureInputs ==
    [sample_id : TextCells, inat_upload : {"NaN", "0", "1"},
     project : {NaN, Cell(<<"a">>)}, x_coord : CoordValues, y_coord : CoordValues,
     epsg : {"4326", "2056"}, transform : {"ok", "missing", "raises"}]

\* the row that the specifications of run() leave untouched
NoPureInput ==
    [sample_id |-> NaN, inat_upload |-> "NaN", project |-> NaN, x_coord |-> None,
     y_coord |-> None, epsg |-> "4326", transform |-> "ok"]

NotComputed ==
    [stage |-> "cells", sample_id |-> <<>>, inat_upload |-> 0, project |-> <<>>,
     unique_tag |-> <<>>, latlon |-> <<None, None>>, tag_list |-> <<>>]

\* str(cell): the text of a NaN is "nan"
Str(c) == IF c.nan THEN <<"n", "a", "n">> ELSE c.s

\* s.strip()
RECURSIVE Strip(_)
Strip(s) ==
    IF s = <<>> THEN s
    ELSE IF Head(s) = " " THEN Strip(Tail(s))
    ELSE IF s[Len(s)] = " " THEN Strip(SubSeq(s, 1, Len(s) - 1))
    ELSE s

\* sample_id=str(row.get("sample_id", "")).strip()
SampleIdOf(c) == Strip(Str(c))

\* int(row.get("inat_upload", 0)) if pd.notna(...) else 0
UploadFlagOf(c) == IF c = "NaN" THEN 0 ELSE IF c = "1" THEN 1 ELSE 0

\* str(row.get("project")).strip() if pd.notna(...) else None (None: "")
ProjectOf(c) == IF c.nan THEN <<>> ELSE Strip(c.s)

\* [r for r in rows if r.inat_upload and r.sample_id]
Kept(rowd) == rowd.inat_upload # 0 /\ rowd.sample_id # <<>>

\* unique_tag = f"emi_external_id:{rowd.sample_id}", the text the tag search
\* queries
SearchTag(sid) == <<"emi_external_id:">> \o sid

\* tags = [f"emi_external_id:{rowd.sample_id}"]
ExternalIdTag(sid) == <<"emi_external_id:">> \o sid

\* ",".join(tags)
RECURSIVE Join(_)
Join(tags) ==
    IF tags = <<>> THEN <<>>
    ELSE IF Len(tags) = 1 THEN tags[1]
    ELSE tags[1] \o <<",">> \o Join(Tail(tags))

\* tag_list of build_params
TagList(rowd) ==
    Join(<<ExternalIdTag(rowd.sample_id)>> \o
         (IF rowd.project # <<>> THEN <<<<"emi_project:dbgi_">> \o rowd.project>>
          ELSE <<>>))

\* the tags of a comma-separated tag list, as the receiver of tag_list takes
\* them apart
RECURSIVE SplitTags(_, _)
SplitTags(s, acc) ==
    IF s = <<>> THEN {acc}
    ELSE IF Head(s) = "," THEN {acc} \cup SplitTags(Tail(s), <<>>)
    ELSE SplitTags(Tail(s), Append(acc, Head(s)))

\* transformer.transform(x, y): some defined pair, (lon, lat)
Projected(x, y) == <<Some(x.v + 1), Some(y.v + 1)>>

ResolveLatLonFromXYSwapped(x, y, epsg, transform) ==
    IF ~x.some \/ ~y.some THEN <<None, None>>
    ELSE IF epsg = "4326" THEN <<x, y>>
    ELSE IF transform = "ok" THEN <<Projected(x, y)[2], Projected(x, y)[1]>>
    ELSE <<None, None>>
\* resolve_lat_lon_from_xy: (lat, lon), (None, None) when a coordinate is
\* missing, pyproj is missing or the transform raises
ResolveLatLonFromXY(x, y, epsg, transform) ==
    IF ~x.some \/ ~y.some THEN <<None, None>>
    ELSE IF epsg = "4326" THEN <<y, x>>
    ELSE IF transform = "ok" THEN <<Projected(x, y)[2], Projected(x, y)[1]>>
    ELSE <<None, None>>

\* no row is being taken through the functions
PureIdle == pin = NoPureInput /\ pout = NotComputed

\* ------------------------------------------------------------- run()

LocInit ==
    [attempt |-> 0, polls |-> 0, recheck |-> FALSE, resp |-> 0, i |-> 0,
     per_attempt |-> 0, before |-> 0, server_count |-> 0,
     uploaded_hashes |-> {}, branch |-> "none", coord_sets |-> 0, checked |-> FALSE]

\* no run yet, nothing read, nothing on the remote side
InitRest ==
    /\ run = 0
    /\ pc = "idle"
    /\ cfg = DefaultConfig
    /\ idx = 0
    /\ input = [s \in Samples |-> UnreadRow]
    /\ state = [s \in Samples |-> NoEntry]
    /\ file = [s \in Samples |-> NoEntry]
    /\ remote = [s \in Samples |-> <<>>]
    /\ votes = [s \in Samples |-> <<>>]
    /\ loc = LocInit
    /\ faults = 0
    /\ wrote = FALSE
    /\ cur = 0
    /\ entry0 = NoEntry
    /\ nCreate = 0
    /\ uploads = <<>>
    /\ searched = FALSE
    /\ outcome = "none"
    /\ trouble = FALSE
    /\ lastSearch = 0
    /\ lastCount = -1
    /\ unguarded = [s \in Samples |-> FALSE]
    /\ runErr = FALSE
    /\ prevClean = FALSE
    /\ abort = "none"

Init == InitRest /\ shape = PlainShape /\ PureIdle

\* a state file of any content
InitLoad == InitRest /\ shape \in FileShapes /\ PureIdle

\* one CSV row of any content, no run
InitPure == InitRest /\ shape = PlainShape /\ pin \in PureInputs /\ pout = NotComputed

\* a remote call answers; `bad`: it failed or lagged
Env(bad) ==
    /\ bad => faults < MaxFaults
    /\ faults' = IF bad THEN faults + 1 ELSE faults
    /\ trouble' = (trouble \/ bad)

\* `continue`, or the except clause of the loop body: on to the next row
NextRowSame(i) == i
\* for rowd in filtered: the loop goes on to the next row
NextRow(i) == i + 1

Leave(tag) ==
    /\ pc' = "loop"
    /\ idx' = NextRow(idx)
    /\ loc' = LocInit
    /\ outcome' = tag
    /\ runErr' = (runErr \/ tag = "error")

Stay(p, l) ==
    /\ pc' = p
    /\ idx' = idx
    /\ loc' = l
    /\ outcome' = outcome
    /\ runErr' = runErr

\* the state file is written from `state`
Persist ==
    /\ file' = state'
    /\ shape' = Dumped(shape)
    /\ wrote' = TRUE

\* no run in progress: nothing of the process is left but the state file
Forget ==
    /\ pc' = "idle"
    /\ cfg' = DefaultConfig
    /\ idx' = 0
    /\ loc' = LocInit
    /\ state' = file'
    /\ wrote' = FALSE
    /\ cur' = 0
    /\ entry0' = NoEntry
    /\ nCreate' = 0
    /\ uploads' = <<>>
    /\ searched' = FALSE
    /\ outcome' = "none"
    /\ trouble' = FALSE
    /\ lastSearch' = 0
    /\ lastCount' = -1
    /\ runErr' = FALSE

\* an exception leaves run()
Raise(why) ==
    /\ abort' = why
    /\ prevClean' = FALSE
    /\ file' = file
    /\ shape' = AtRest(shape)
    /\ faults' = faults
    /\ Forget

\* wait_for_existing(timeout_s): `while time.time() < deadline` with
\* deadline = time.time() + timeout_s is entered only when timeout_s > 0, and
\* then runs for a number of polls that the clock decides (at most MaxPolls here)
WaitPolls(timeout_positive) == IF timeout_positive THEN MaxPolls ELSE 0

\* the head of the create loop: existing = wait_for_existing(0)
CreateLoopHead(l) ==
    IF WaitPolls(FALSE) > 0
    THEN Stay("poll", [l EXCEPT !.polls = 0, !.recheck = TRUE])
    ELSE Stay("create", l)

CreateExhaustedLate(attempt) == attempt > UploadRetries + 1
\* if attempt > upload_retries
CreateExhausted(attempt) == attempt > UploadRetries

\* if attempt > upload_retries: raise
RetryOrRaise(l) ==
    IF CreateExhausted(l.attempt) THEN Leave("error") ELSE CreateLoopHead(l)

NoPhotosNever(photos) == FALSE
\* if not photos
NoPhotos(photos) == photos = <<>>

UnresolvedNever(row) == FALSE
\* lat, lon = resolve_lat_lon_from_xy(...); if lat is None or lon is None.
\* coords_ok: x_coord and y_coord are present and, when the EPSG is not 4326,
\* pyproj is installed and its transform does not raise
Unresolved(row) == ~row.coords_ok

SetLatLonSkipped(l) == l
\* rowd.latitude, rowd.longitude = lat, lon
SetLatLon(l) == [l EXCEPT !.coord_sets = @ + 1]

DryRunNever(c) == FALSE
\* if dry_run: ... continue
DryRun(c) == c.dry_run

\* from collect_photos to the create loop
LocalChecks(l) ==
    \E r1 \in Reveal(input[idx], {"folder"}) :
        IF NoPhotos(CollectPhotos(r1.folder)) THEN
            /\ input' = [input EXCEPT ![idx] = r1]
            /\ Leave("no_photos")
        ELSE \E r2 \in Reveal(r1, {"coords"}) :
            /\ input' = [input EXCEPT ![idx] = r2]
            /\ IF Unresolved(r2) THEN Leave("no_coords")
               ELSE IF DryRun(cfg) THEN Leave("dry_run")
               ELSE CreateLoopHead(SetLatLon(l))

TokenAbortNever(c) == FALSE
\* if not token: ... if not dry_run: raise SystemExit
TokenAbort(c) == ~c.token /\ ~c.dry_run

\* run() up to the loop over the rows: the token, the state file, the CSV
StartRun ==
    /\ pc = "idle"
    /\ run < MaxRuns
    /\ run' = run + 1
    /\ \E c \in Configs :
        IF TokenAbort(c) THEN
            /\ input' = input
            /\ Raise("no_token")
        ELSE \E ok \in CsvReadings :
            /\ input' = ReadCsv(ok)
            /\ IF \E s \in Samples : ~ok[s] THEN Raise("bad_csv")
               ELSE /\ cfg' = c
                    /\ state' = file
                    /\ shape' = Loaded(shape)
                    /\ idx' = 1
                    /\ pc' = "loop"
                    /\ abort' = "none"
                    /\ UNCHANGED <<file, loc, faults, wrote, cur, entry0, nCreate,
                                   uploads, searched, outcome, trouble, lastSearch,
                                   lastCount, runErr, prevClean>>
    /\ UNCHANGED <<remote, unguarded, votes, pureVars>>

\* the head of the loop body: the skip of a complete sample
BeginSample ==
    /\ pc = "loop"
    /\ idx <= NumSamples
    /\ IF StateRaises(shape, idx) THEN
            /\ Raise("bad_state")
            /\ UNCHANGED <<input, unguarded>>
       ELSE /\ cur' = idx
            /\ entry0' = state[idx]
            /\ nCreate' = 0
            /\ uploads' = <<>>
            /\ searched' = FALSE
            /\ trouble' = FALSE
            /\ lastSearch' = 0
            /\ lastCount' = -1
            /\ wrote' = FALSE
            /\ IF SkipComplete(state[idx]) THEN
                    /\ Leave("complete_skip")
                    /\ UNCHANGED <<input, unguarded>>
               ELSE /\ unguarded' = [unguarded EXCEPT
                                       ![idx] = @ \/ ~cfg.dedupe_remote \/ ~cfg.index_wait]
                    /\ IF cfg.dedupe_remote
                       THEN Stay("precheck", loc) /\ UNCHANGED input
                       ELSE LocalChecks(loc)
            /\ UNCHANGED <<cfg, state, file, shape, faults, prevClean, abort>>
    /\ UNCHANGED <<run, remote, votes, pureVars>>

\* get_observations(q=unique_tag, search_on="tags", ...) answers
SearchStep(o, k) ==
    /\ (o = "miss") => Len(remote[idx]) > 0
    /\ Env(o # "ok")
    /\ lastSearch' = k
    /\ searched' = TRUE
    /\ unguarded' = [unguarded EXCEPT ![idx] = @ \/ o # "ok"]

DedupeHitNever(k) == FALSE
\* if results and len(results) > 0
DedupeHit(k) == k # 0

DedupeEntryKept(e, k) == e
\* state[rowd.sample_id] = {"id": first.get("id")}
DedupeEntry(e, k) == IdEntry(k)

\* the remote dedupe check before creation; the assignment to `state` raises
\* inside the try when `state` is no dict, and the sample is not skipped
Precheck ==
    /\ pc = "precheck"
    /\ \E o \in SearchOutcomes : \E k \in SearchResults(idx, o) :
        /\ SearchStep(o, k)
        /\ IF DedupeHit(k) /\ ~StoreRaises(shape) THEN
                /\ state' = [state EXCEPT ![idx] = DedupeEntry(@, k)]
                /\ Leave("dedupe_skip")
                /\ UNCHANGED input
           ELSE /\ state' = state
                /\ LocalChecks([loc EXCEPT !.checked = TRUE])
    /\ wrote' = FALSE
    /\ UNCHANGED <<run, cfg, file, shape, remote, cur, entry0, nCreate, uploads,
                   lastCount, prevClean, abort, votes, pureVars>>

\* obs_id = resp.get("id"); the id is stored and the state file written
AfterCreate(k) ==
    IF StoreRaises(shape) THEN
        /\ UNCHANGED <<state, file, shape>>
        /\ wrote' = FALSE
        /\ Leave("error")
    ELSE
        /\ state' = [state EXCEPT ![idx] = WithId(@, k)]
        /\ Persist
        /\ Stay("count0", [loc EXCEPT !.resp = k])

\* resp = create_observation(**params), and its except clause up to
\* wait_for_existing(index_wait_seconds)
Create ==
    /\ pc = "create"
    /\ \E o \in CallOutcomes :
        /\ (o # "fail") => Len(remote[idx]) < MaxRecords
        /\ Env(o # "ok")
        /\ remote' = IF o # "fail" THEN [remote EXCEPT ![idx] = Append(@, NewRecord)]
                     ELSE remote
        /\ votes' = IF o # "fail" THEN [votes EXCEPT ![idx] = Append(@, 0)]
                    ELSE votes
        /\ nCreate' = nCreate + 1
        /\ IF o = "ok" THEN AfterCreate(Len(remote[idx]) + 1)
           ELSE /\ UNCHANGED <<state, file, shape>>
                /\ wrote' = FALSE
                /\ LET l == [loc EXCEPT !.attempt = @ + 1, !.checked = FALSE] IN
                   IF WaitPolls(cfg.index_wait) > 0
                   THEN Stay("poll", [l EXCEPT !.polls = 0, !.recheck = FALSE])
                   ELSE RetryOrRaise(l)
    /\ UNCHANGED <<run, cfg, input, cur, entry0, uploads, searched, lastSearch,
                   lastCount, unguarded, prevClean, abort, pureVars>>

WaitResultNone(k) == 0
\* return results[0] if isinstance(results[0], dict) else None
WaitResult(k) == k

\* one poll of wait_for_existing: a tag search, then time.sleep
Poll ==
    /\ pc = "poll"
    /\ \E o \in SearchOutcomes : \E k \in SearchResults(idx, o) : \E more \in BOOLEAN :
        /\ SearchStep(o, k)
        /\ IF WaitResult(k) # 0 THEN
                /\ ~more
                /\ AfterCreate(WaitResult(k))
           ELSE /\ UNCHANGED <<state, file, shape>>
                /\ wrote' = FALSE
                /\ IF more THEN
                        /\ loc.polls + 1 < WaitPolls(TRUE)
                        /\ Stay("poll", [loc EXCEPT !.polls = @ + 1, !.checked = TRUE])
                   ELSE IF loc.recheck THEN Stay("create", [loc EXCEPT !.checked = TRUE])
                   ELSE RetryOrRaise([loc EXCEPT !.checked = TRUE])
    /\ UNCHANGED <<run, cfg, input, remote, cur, entry0, nCreate, uploads, lastCount,
                   prevClean, abort, votes, pureVars>>

\* ------------------------------------------------------------- photos

\* what _get_photo_count(obs_id, token) returns on outcome o
CountRead(o) == GetPhotoCount(RemoteCount(idx, loc.resp), o)

\* _get_photo_count(obs_id, token) answers
CountStep(o) ==
    /\ (o = "stale") => RemoteCount(idx, loc.resp) > 0
    /\ Env(o # "ok")
    /\ lastCount' = CountRead(o)

\* the hash of the j-th file of photos_list
HashAt(j) == Sha256File(PhotosList(idx)[j])

\* the next file of photos_list, from the j-th on, whose hash is not in hs
\* (0: there is none)
NextPhoto(j, hs) ==
    LET left == {m \in j..LocalTotal(idx) : HashAt(m) \notin hs} IN
    IF left = {} THEN 0 ELSE CHOOSE m \in left : \A x \in left : m <= x

\* if rowd.is_wild is not None and ... resp.get("id") and token
VoteDue(row) == row.is_wild # "None" /\ cfg.token

\* after the photos: the vote, then the update of the local state
AfterPhotos(l) ==
    \E row \in Reveal(input[idx], {"is_wild"}) :
        /\ input' = [input EXCEPT ![idx] = row]
        /\ IF VoteDue(row) THEN Stay("vote", l) ELSE Stay("finish", l)

\* for photo_path in photos_list, up to the next `before` query
PhotoLoop(j, l) ==
    LET nxt == NextPhoto(j, l.uploaded_hashes) IN
    IF nxt = 0 \/ l.server_count >= LocalTotal(idx) THEN Stay("final", l)
    ELSE Stay("before", [l EXCEPT !.i = nxt, !.per_attempt = 0])

ShortCircuitStrict(count, total) == count > total
\* if server_count >= local_total
ShortCircuit(count, total) == count >= total

\* state[sid]["uploaded_photos"] = sorted(set(uploaded) | set(all_hashes));
\* state[sid]["complete"] = True
MarkAll(e, hs) == [e EXCEPT !.uploaded_photos = @ \cup hs, !.complete = TRUE]

\* entry["uploaded_photos"] = sorted(set(entry.get("uploaded_photos", [])) | {h})
AddHash(e, h) == [e EXCEPT !.present = TRUE, !.uploaded_photos = @ \cup {h}]

\* server_count = _get_photo_count(obs_id, token) and the branch on it
ServerCount ==
    /\ pc = "count0"
    /\ \E o \in CountOutcomes :
        /\ CountStep(o)
        /\ LET c == CountRead(o) IN
           IF ShortCircuit(c, LocalTotal(idx)) THEN
                /\ state' = [state EXCEPT ![idx] = MarkAll(@, AllHashes(idx))]
                /\ Persist
                /\ AfterPhotos([loc EXCEPT !.server_count = c, !.branch = "short"])
           ELSE /\ UNCHANGED <<state, file, shape, input>>
                /\ wrote' = FALSE
                /\ PhotoLoop(1, [loc EXCEPT !.server_count = c, !.branch = "upload",
                                   !.uploaded_hashes = state[idx].uploaded_photos])
    /\ UNCHANGED <<run, cfg, remote, cur, entry0, nCreate, uploads, searched,
                   lastSearch, unguarded, prevClean, abort, votes, pureVars>>

\* before = _get_photo_count(obs_id, token)
Before ==
    /\ pc = "before"
    /\ \E o \in CountOutcomes :
        /\ CountStep(o)
        /\ Stay("upload", [loc EXCEPT !.before = CountRead(o)])
    /\ wrote' = FALSE
    /\ UNCHANGED <<run, cfg, input, state, file, shape, remote, cur, entry0, nCreate,
                   uploads, searched, lastSearch, unguarded, prevClean, abort, votes,
                   pureVars>>

\* upload_media(obs_id, photos=[str(p)], ...)
Upload ==
    /\ pc = "upload"
    /\ \E o \in CallOutcomes :
        /\ Env(o # "ok")
        /\ remote' = IF o # "fail"
                     THEN [remote EXCEPT
                             ![idx][loc.resp][PhotosList(idx)[loc.i].content] = @ + 1]
                     ELSE remote
        /\ uploads' = Append(uploads, PhotosList(idx)[loc.i].num)
        /\ Stay("after", loc)
    /\ wrote' = FALSE
    /\ UNCHANGED <<run, cfg, input, state, file, shape, cur, entry0, nCreate, searched,
                   lastSearch, lastCount, unguarded, prevClean, abort, votes, pureVars>>

PhotoExhaustedLate(per_attempt) == per_attempt > UploadRetries + 1
\* if per_attempt > upload_retries
PhotoExhausted(per_attempt) == per_attempt > UploadRetries

\* if after > before
AfterRose(after, before) == after > before

\* after = _get_photo_count(obs_id, token), in the except clause and after a
\* call that returned alike: the hash is recorded if the count rose, else the
\* same photo is retried until per_attempt > upload_retries
After ==
    /\ pc = "after"
    /\ \E o \in CountOutcomes :
        /\ CountStep(o)
        /\ LET c == CountRead(o) IN
           IF AfterRose(c, loc.before) THEN
                /\ state' = [state EXCEPT ![idx] = AddHash(@, HashAt(loc.i))]
                /\ Persist
                /\ PhotoLoop(loc.i + 1,
                             [loc EXCEPT !.server_count = c,
                                         !.uploaded_hashes = @ \cup {HashAt(loc.i)}])
           ELSE /\ UNCHANGED <<state, file, shape>>
                /\ wrote' = FALSE
                /\ IF PhotoExhausted(loc.per_attempt + 1) THEN Leave("error")
                   ELSE Stay("before", [loc EXCEPT !.per_attempt = @ + 1])
    /\ UNCHANGED <<run, cfg, input, remote, cur, entry0, nCreate, uploads, searched,
                   lastSearch, unguarded, prevClean, abort, votes, pureVars>>

FinalCoversAlways(count, total) == TRUE
\* if final_count >= local_total
FinalCovers(count, total) == count >= total

\* final_count = _get_photo_count(obs_id, token); complete if it covers the
\* local photos
Final ==
    /\ pc = "final"
    /\ \E o \in CountOutcomes :
        /\ CountStep(o)
        /\ IF FinalCovers(CountRead(o), LocalTotal(idx)) THEN
                /\ state' = [state EXCEPT ![idx].complete = TRUE]
                /\ Persist
           ELSE /\ UNCHANGED <<state, file, shape>>
                /\ wrote' = FALSE
        /\ AfterPhotos(loc)
    /\ UNCHANGED <<run, cfg, remote, cur, entry0, nCreate, uploads, searched,
                   lastSearch, unguarded, prevClean, abort, votes, pureVars>>

\* requests.post(.../quality/wild.json): a status >= 300 is logged, an
\* exception ends the sample in the except clause of the loop body
Vote ==
    /\ pc = "vote"
    /\ \E o \in VoteOutcomes :
        /\ Env(o # "ok")
        /\ IF o = "raise" THEN Leave("error") ELSE Stay("finish", loc)
    /\ votes' = [votes EXCEPT ![idx][loc.resp] = @ + 1]
    /\ wrote' = FALSE
    /\ UNCHANGED <<run, cfg, input, state, file, shape, remote, cur, entry0, nCreate,
                   uploads, searched, lastSearch, lastCount, unguarded, prevClean,
                   abort, pureVars>>

\* state[rowd.sample_id] = {"id": resp["id"], "uuid": resp.get("uuid")}
FinishEntry(e, k) == IdEntry(k)

\* "Update local state": the entry is replaced and the state file written
Finish ==
    /\ pc = "finish"
    /\ state' = [state EXCEPT ![idx] = FinishEntry(@, loc.resp)]
    /\ Persist
    /\ Leave("done")
    /\ UNCHANGED <<run, cfg, input, remote, faults, cur, entry0, nCreate, uploads,
                   searched, trouble, lastSearch, lastCount, unguarded, prevClean,
                   abort, votes, pureVars>>

\* ------------------------------------------------------------- end of a run

\* the loop is over: run() returns
EndRun ==
    /\ pc = "loop"
    /\ idx > NumSamples
    /\ prevClean' = (~cfg.dry_run /\ ~runErr)
    /\ abort' = "none"
    /\ faults' = faults
    /\ file' = file
    /\ shape' = AtRest(shape)
    /\ Forget
    /\ UNCHANGED <<run, input, remote, unguarded, votes, pureVars>>

\* the process is terminated, inside the write of the state file that ended
\* its last step (torn) or after it
Kill ==
    /\ pc # "idle"
    /\ faults < MaxFaults
    /\ faults' = faults + 1
    /\ prevClean' = FALSE
    /\ abort' = "none"
    /\ \E torn \in TornOutcomes(wrote) :
        /\ file' = IF torn THEN [s \in Samples |-> NoEntry] ELSE file
        /\ shape' = IF torn THEN TornShape ELSE AtRest(shape)
    /\ Forget
    /\ UNCHANGED <<run, input, remote, unguarded, votes, pureVars>>

Next ==
    \/ StartRun
    \/ BeginSample
    \/ Precheck
    \/ Create
    \/ Poll
    \/ ServerCount
    \/ Before
    \/ Upload
    \/ After
    \/ Final
    \/ Vote
    \/ Finish
    \/ EndRun
    \/ Kill

Spec == Init /\ [][Next]_vars

SpecLoad == InitLoad /\ [][Next]_vars

\* a step of run(): every action but the start of a run and the end of the
\* process
RunStep ==
    \/ BeginSample
    \/ Precheck
    \/ Create
    \/ Poll
    \/ ServerCount
    \/ Before
    \/ Upload
    \/ After
    \/ Final
    \/ Vote
    \/ Finish
    \/ EndRun

\* runs that nothing kills
NextLive ==
    \/ StartRun
    \/ RunStep

\* every remote call returns or raises and the clock advances: a run takes
\* its next step
SpecLive == Init /\ [][NextLive]_vars /\ WF_vars(RunStep)

\* rows = (to_row_data(r) for _, r in df.iterrows())
ToRowData ==
    /\ pout.stage = "cells"
    /\ pout' = [pout EXCEPT !.stage = "row",
                            !.sample_id = SampleIdOf(pin.sample_id),
                            !.inat_upload = UploadFlagOf(pin.inat_upload),
                            !.project = ProjectOf(pin.project)]
    /\ UNCHANGED <<pin, runVars>>

\* filtered = [r for r in rows if r.inat_upload and r.sample_id]
FilterRow ==
    /\ pout.stage = "row"
    /\ pout' = [pout EXCEPT !.stage = IF Kept(pout) THEN "kept" ELSE "dropped"]
    /\ UNCHANGED <<pin, runVars>>

\* the loop body on a kept row: the tag of the dedupe search
TagSearch ==
    /\ pout.stage = "kept"
    /\ pout' = [pout EXCEPT !.stage = "searched",
                            !.unique_tag = SearchTag(pout.sample_id)]
    /\ UNCHANGED <<pin, runVars>>

\* lat, lon = resolve_lat_lon_from_xy(rowd, epsg_to_use, logger)
ResolveStep ==
    /\ pout.stage = "searched"
    /\ LET ll == ResolveLatLonFromXY(pin.x_coord, pin.y_coord, pin.epsg,
                                      pin.transform) IN
       pout' = [pout EXCEPT !.latlon = ll,
                            !.stage = IF ~ll[1].some \/ ~ll[2].some
                                      THEN "no_coords" ELSE "resolved"]
    /\ UNCHANGED <<pin, runVars>>

\* params = build_params(rowd, photos, access_token=token or "")
BuildParams ==
    /\ pout.stage = "resolved"
    /\ pout' = [pout EXCEPT !.stage = "params", !.tag_list = TagList(pout)]
    /\ UNCHANGED <<pin, runVars>>

NextPure ==
    \/ ToRowData
    \/ FilterRow
    \/ TagSearch
    \/ ResolveStep
    \/ BuildParams

SpecPure == InitPure /\ [][NextPure]_vars

\* ------------------------------------------------------------- photo keys
\* The identity keys of the photos of one sample, where _sha256_file may
\* raise: the short-circuit branch and the per-photo loop of run().

\* photos_list: the files img2.jpg, img10.jpg, ...; readable: _sha256_file
\* returns for the file (it raises when the file cannot be opened or read;
\* p.stat() works on a file that collect_photos listed)
KeyPhotos ==
    UNION {[1..k -> BOOLEAN] : k \in 1..MaxPhotos}

KeyFile(rd, j) == [num |-> FileNum(j), content |-> j, readable |-> rd[j]]

\* f"name:{p.name}|size:{p.stat().st_size}"
NameSizeKey(f) == <<"name|size", f.num>>

\* the keys an entry may hold for the files
KeysOf(rd) ==
    UNION {{Sha256File(KeyFile(rd, j)), NameSizeKey(KeyFile(rd, j))} : j \in DOMAIN rd}

\* the readability of the files, the uploaded_photos of the entry, and
\* whether server_count >= local_total
KeyInputs ==
    UNION {[readable : {rd}, uploaded : SUBSET KeysOf(rd), covered : BOOLEAN] :
            rd \in KeyPhotos}

KeysNotComputed == [stage |-> "start", i |-> 0, keys |-> <<>>, uploaded |-> {}]

\* all_hashes = []; try: all_hashes = [_sha256_file(Path(p)) for p in
\* photos_list]; except Exception: pass
AllHashesOrNone(rd) ==
    IF \A j \in DOMAIN rd : rd[j]
    THEN {Sha256File(KeyFile(rd, j)) : j \in DOMAIN rd}
    ELSE {}

\* try: h = _sha256_file(p); except Exception: h = f"name:...|size:..."
PhotoKey(f) == IF f.readable THEN Sha256File(f) ELSE NameSizeKey(f)

\* the short-circuit branch: uploaded_photos = sorted(set(uploaded) |
\* set(all_hashes))
MarkAllKeys ==
    /\ pout.stage = "start"
    /\ pin.covered
    /\ pout' = [pout EXCEPT !.stage = "marked",
                            !.uploaded = pin.uploaded \cup AllHashesOrNone(pin.readable)]
    /\ UNCHANGED <<pin, runVars>>

\* uploaded_hashes = set(state[sid]["uploaded_photos"])
EnterPhotoLoop ==
    /\ pout.stage = "start"
    /\ ~pin.covered
    /\ pout' = [pout EXCEPT !.stage = "photos", !.i = 1, !.uploaded = pin.uploaded]
    /\ UNCHANGED <<pin, runVars>>

\* for photo_path in photos_list: the key of the file; the file is skipped if
\* the key is in uploaded_hashes and else uploaded and its key recorded
KeyPhoto ==
    /\ pout.stage = "photos"
    /\ pout.i <= Len(pin.readable)
    /\ LET h == PhotoKey(KeyFile(pin.readable, pout.i)) IN
       pout' = [pout EXCEPT !.i = @ + 1, !.keys = Append(@, h),
                            !.uploaded = @ \cup {h}]
    /\ UNCHANGED <<pin, runVars>>

\* the loop over photos_list is over
EndPhotoLoop ==
    /\ pout.stage = "photos"
    /\ pout.i > Len(pin.readable)
    /\ pout' = [pout EXCEPT !.stage = "done"]
    /\ UNCHANGED <<pin, runVars>>

InitKeys == InitRest /\ shape = PlainShape /\ pin \in KeyInputs /\ pout = KeysNotComputed

NextKeys ==
    \/ MarkAllKeys
    \/ EnterPhotoLoop
    \/ KeyPhoto
    \/ EndPhotoLoop

SpecKeys == InitKeys /\ [][NextKeys]_vars

\* ------------------------------------------------------------- the batch
\* The rows of a CSV through the filter and the limit of run(), and the loop
\* over what is left.

\* limit: Optional[int]; --limit has type=int, so it may be negative
NoLimit == [given |-> FALSE, n |-> 0]
Limits == {NoLimit} \cup {[given |-> TRUE, n |-> k] : k \in (0 - 1)..MaxRows}

\* a row: its inat_upload cell and its sample id after strip
BatchRows == [inat_upload : {"NaN", "0", "1"}, sample_id : {<<>>, <<"a">>}]

BatchInputs ==
    [rows : UNION {[1..k -> BatchRows] : k \in 0..MaxRows}, limit : Limits]

BatchNotComputed == [stage |-> "rows", filtered |-> <<>>, called |-> <<>>]

\* the positions in `rows`, in order, of the rows that `keep` holds for
RECURSIVE Positions(_, _, _)
Positions(rows, keep, j) ==
    IF j > Len(rows) THEN <<>>
    ELSE (IF keep[j] THEN <<j>> ELSE <<>>) \o Positions(rows, keep, j + 1)

\* filtered = [r for r in rows if r.inat_upload and r.sample_id]
Filtered(rows) ==
    Positions(rows,
              [j \in DOMAIN rows |->
                  Kept([inat_upload |-> UploadFlagOf(rows[j].inat_upload),
                        sample_id |-> rows[j].sample_id])],
              1)

\* q[:n] of Python: the first n elements, and for a negative n all but the
\* last -n
Slice(q, n) ==
    IF n >= 0 THEN SubSeq(q, 1, IF n < Len(q) THEN n ELSE Len(q))
    ELSE SubSeq(q, 1, IF Len(q) + n > 0 THEN Len(q) + n ELSE 0)

\* if limit is not None: filtered = filtered[:limit]
Limited(q, limit) == IF limit.given THEN Slice(q, limit.n) ELSE q

FilterRows ==
    /\ pout.stage = "rows"
    /\ pout' = [pout EXCEPT !.stage = "filtered", !.filtered = Filtered(pin.rows)]
    /\ UNCHANGED <<pin, runVars>>

ApplyLimit ==
    /\ pout.stage = "filtered"
    /\ pout' = [pout EXCEPT !.stage = "loop",
                            !.filtered = Limited(pout.filtered, pin.limit)]
    /\ UNCHANGED <<pin, runVars>>

\* for idx, rowd in enumerate(filtered, start=1): the loop body, where every
\* remote call of run() is made
ProcessRow ==
    /\ pout.stage = "loop"
    /\ Len(pout.called) < Len(pout.filtered)
    /\ pout' = [pout EXCEPT !.called = Append(@, pout.filtered[Len(@) + 1])]
    /\ UNCHANGED <<pin, runVars>>

EndBatch ==
    /\ pout.stage = "loop"
    /\ Len(pout.called) = Len(pout.filtered)
    /\ pout' = [pout EXCEPT !.stage = "end"]
    /\ UNCHANGED <<pin, runVars>>

InitBatch ==
    InitRest /\ shape = PlainShape /\ pin \in BatchInputs /\ pout = BatchNotComputed

NextBatch ==
    \/ FilterRows
    \/ ApplyLimit
    \/ ProcessRow
    \/ EndBatch

SpecBatch == InitBatch /\ [][NextBatch]_vars

\* ------------------------------------------------------------- launcher.py

\* the scripts that launcher.py runs, in the order of its statements
Stages ==
    <<"fetcher", "location_formatter", "emi_id_extracter", "create_directus_fields",
      "db_updater", "directus_link_maker">>

\* the exit status of a stage: 0, or not
ExitCodes == {0, 1, 2}

\* what each stage would exit with if it were run
LaunchInputs == [DOMAIN Stages -> ExitCodes]

LauncherStart == [stage |-> "running", next |-> 1, started |-> <<>>]

CheckReturncodeNever(code) == FALSE
\* CompletedProcess.check_returncode(): raises CalledProcessError if the exit
\* status is not 0, which ends the launcher
CheckReturncode(code) == code # 0

\* subprocess.run(["python3", f"{path_to_scripts}<stage>.py"]).check_returncode()
RunStage ==
    /\ pout.stage = "running"
    /\ pout.next <= Len(Stages)
    /\ pout' = [pout EXCEPT !.started = Append(@, Stages[pout.next]),
                            !.next = IF CheckReturncode(pin[pout.next]) THEN @ ELSE @ + 1,
                            !.stage = IF CheckReturncode(pin[pout.next])
                                      THEN "stopped" ELSE @]
    /\ UNCHANGED <<pin, runVars>>

\* the end of the script
LauncherEnd ==
    /\ pout.stage = "running"
    /\ pout.next > Len(Stages)
    /\ pout' = [pout EXCEPT !.stage = "done"]
    /\ UNCHANGED <<pin, runVars>>

InitLaunch ==
    InitRest /\ shape = PlainShape /\ pin \in LaunchInputs /\ pout = LauncherStart

NextLaunch ==
    \/ RunStage
    \/ LauncherEnd

SpecLaunch == InitLaunch /\ [][NextLaunch]_vars

\* ------------------------------------------------------------- properties

\* the loop body has just ended for sample `cur`
Ended == pc = "loop" /\ cur # 0 /\ outcome # "none"

\* this step is a step of the program, not the end of the process
Running == pc' # "idle"

\* the files of the sample's folder have pairwise distinct contents
DistinctContents(s) ==
    \A f, g \in input[s].folder : f.content = g.content => f = g

\* `uploads` names every file of the folder once, in natural order
UploadedEachInNaturalOrder(s) ==
    /\ Len(uploads) = Cardinality(input[s].folder)
    /\ {uploads[j] : j \in 1..Len(uploads)} = {f.num : f \in input[s].folder}
    /\ \A a, b \in 1..Len(uploads) : a < b => uploads[a] < uploads[b]

C2_SecondRunMakesNoCalls ==
    (prevClean /\ run >= 2) => (nCreate = 0 /\ uploads = <<>>)

\* C3: a sample whose entry is complete when the run loads the state is
\* skipped before any remote call: no search, no create, no upload.
C3_CompleteNeverResubmitted ==
    (cur # 0 /\ entry0.present /\ entry0.complete) => (nCreate = 0 /\ uploads = <<>> /\ ~searched)

C3_Witness == Ended /\ outcome = "complete_skip" /\ entry0.complete

\* C4: when create raised and a tag search of the wait that follows returns a
\* record, that record's id is used and stored, the photo count is queried
\* next, and create is not called again for the sample in this run.
C4_FoundAfterFailedCreate ==
    /\ [][(pc = "poll" /\ ~loc.recheck /\ Running /\ lastSearch' # 0)
            => /\ pc' = "count0"
               /\ loc'.resp = lastSearch'
               /\ state'[idx].id = lastSearch'
               /\ file'[idx].id = lastSearch']_vars
    /\ [][(loc.resp # 0 /\ Running) => nCreate' = nCreate]_vars

C4_Witness == pc = "count0" /\ loc.attempt > 0 /\ nCreate = 1 /\ loc.resp # 0

Partial(e, s) ==
    /\ e.present /\ e.id # 0 /\ ~e.complete
    /\ e.uploaded_photos # {}
    /\ e.uploaded_photos \subseteq AllHashes(s)
    /\ e.uploaded_photos # AllHashes(s)

\* the files of the folder whose hash is not in hs, in natural order
RECURSIVE MissingFrom(_, _, _)
MissingFrom(s, j, hs) ==
    IF j > LocalTotal(s) THEN <<>>
    ELSE IF Sha256File(PhotosList(s)[j]) \in hs THEN MissingFrom(s, j + 1, hs)
    ELSE <<PhotosList(s)[j].num>> \o
         MissingFrom(s, j + 1, hs \cup {Sha256File(PhotosList(s)[j])})

\* C6 (crash resume): a run that starts from a partial entry and whose remote
\* calls all succeed uploads exactly the photos not yet recorded and leaves
\* the sample complete.
C6_CrashResume ==
    (Ended /\ ~cfg.dry_run /\ ~trouble /\ Partial(entry0, cur))
        => (uploads = MissingFrom(cur, 1, entry0.uploaded_photos) /\ state[cur].complete)

\* C7 as stated: a sample with no entry in the state, processed with every
\* remote call succeeding, gets one create call and one upload call per
\* local photo, in natural order.
C7_CreateOnceUploadEach ==
    (Ended /\ outcome = "done" /\ ~entry0.present /\ ~trouble)
        => (nCreate = 1 /\ UploadedEachInNaturalOrder(cur))

\* C7 amended: the same, for a sample whose photos have pairwise distinct
\* contents.
C7_CreateOnceUploadEachDistinct ==
    (Ended /\ outcome = "done" /\ ~entry0.present /\ ~trouble /\ DistinctContents(cur))
        => (nCreate = 1 /\ UploadedEachInNaturalOrder(cur))

C7_Witness ==
    /\ Ended /\ outcome = "done" /\ ~entry0.present /\ ~trouble
    /\ DistinctContents(cur) /\ Len(uploads) >= 2

\* C8: when a sample's processing ends without error and the record holds at
\* least as many photos as the folder, the entry in memory and in the state
\* file holds the id, the hash of every local photo and complete = True.
C8_FinalEntryComplete ==
    (Ended /\ outcome = "done"
        /\ RemoteCount(cur, state[cur].id) >= LocalTotal(cur))
        => /\ state[cur].complete
           /\ AllHashes(cur) \subseteq state[cur].uploaded_photos
           /\ file[cur] = state[cur]

\* C9: uploaded_photos of an entry only grows, in the state file over all
\* runs and in memory within a run.
C9_UploadedOnlyGrows ==
    [][\A s \in Samples :
        /\ file[s].uploaded_photos \subseteq file'[s].uploaded_photos
        /\ (pc \notin {"idle"} /\ Running)
              => state[s].uploaded_photos \subseteq state'[s].uploaded_photos]_vars

C11_CompleteOnlyOnCount ==
    [][\A s \in Samples :
        (pc # "idle" /\ Running /\ ~state[s].complete /\ state'[s].complete)
            => /\ s = idx
               /\ pc \in {"count0", "final"}
               /\ lastCount' # -1
               /\ lastCount' >= LocalTotal(s)]_vars

C11_Witness ==
    /\ pc \in {"vote", "finish"} /\ loc.branch = "upload"
    /\ state[idx].complete /\ Len(uploads) > 0
    /\ lastCount >= LocalTotal(idx)

\* the positions of run() whose next step is a remote call
RemoteCallPcs ==
    {"precheck", "create", "poll", "count0", "before", "upload", "after", "final",
     "vote"}

\* C12: whenever a run that is not a dry run is about to make a remote call,
\* the state file holds what the state map holds in memory.
C12_PersistedBeforeRemoteCall ==
    (pc \in RemoteCallPcs /\ ~cfg.dry_run) => file = state

\* C13: every step, a kill too, leaves in the state file either the whole
\* mapping it held before the step or the whole mapping that `state` holds
\* after it, never an empty or cut-off text.
C13_SaveAtomic ==
    [][/\ shape'.fkind = "object"
       /\ file' = file \/ (Running /\ file' = state')]_vars

\* C14: whatever the state file holds, run() starts from a mapping of
\* entries (the persisted one, else the empty one) and no run is ended by
\* an exception raised on the loaded state.
C14_LoadYieldsMapping ==
    /\ [][(pc = "idle" /\ pc' = "loop")
            => (shape'.mkind = "dict" /\ shape'.mbad = {} /\ state' = file)]_vars
    /\ [](abort # "bad_state")

\* C15: a photo's hash is added to uploaded_photos only when the photo is
\* attached to the remote record.
C15_HashOnlyIfAttached ==
    [][(pc = "after" /\ Running
            /\ state'[idx].uploaded_photos # state[idx].uploaded_photos)
        => remote[idx][loc.resp][PhotosList(idx)[loc.i].content] > 0]_vars

\* the number of upload calls made for the file numbered n
Calls(n) == Cardinality({j \in 1..Len(uploads) : uploads[j] = n})

\* C16: one run makes at most upload_retries + 1 upload calls for a photo;
\* when the count has not risen after the last of them the sample ends in
\* the except clause with no further upload, and the loop goes on to the
\* next row.
C16_PhotoRetryCeiling ==
    /\ [](\A j \in 1..Len(uploads) : Calls(uploads[j]) <= UploadRetries + 1)
    /\ [](pc \in {"before", "upload"}
            => Calls(PhotosList(idx)[loc.i].num) <= UploadRetries)
    /\ [][(pc = "after" /\ Running /\ state'[idx] = state[idx]
            /\ Calls(PhotosList(idx)[loc.i].num) = UploadRetries + 1)
          => (outcome' = "error" /\ pc' = "loop" /\ idx' = idx + 1
                /\ uploads' = uploads)]_vars

C16_Witness ==
    /\ Ended /\ outcome = "error" /\ LocalTotal(cur) >= 2
    /\ Len(uploads) = UploadRetries + 1
    /\ \A j \in 1..Len(uploads) : uploads[j] = uploads[1]

\* C17: after a failed create the tag search is polled when there is an
\* index wait, create is called again only after polls that found nothing,
\* one run calls create at most upload_retries + 1 times for a sample, and
\* the sample then ends in the except clause.
C17_CreateRetryCeiling ==
    /\ [](nCreate <= UploadRetries + 1)
    /\ [](pc = "create" => nCreate <= UploadRetries)
    /\ [][(pc = "create" /\ Running /\ pc' # "count0" /\ cfg.index_wait)
            => pc' = "poll"]_vars
    /\ [][(pc = "poll" /\ Running /\ pc' = "create") => lastSearch' = 0]_vars
    /\ [][(pc \in {"create", "poll"} /\ Running /\ pc' = "loop")
            => (outcome' = "error" /\ nCreate' = UploadRetries + 1)]_vars

C17_Witness ==
    /\ Ended /\ outcome = "error" /\ nCreate = UploadRetries + 1
    /\ searched /\ Len(remote[cur]) = 0

\* C18: a sample that ended in the except clause has no complete = True in
\* its entry, in memory or in the state file, and the loop goes on.
C18_ErrorLeavesIncomplete ==
    (Ended /\ outcome = "error") => (~state[cur].complete /\ ~file[cur].complete)

\* C19: no run is in progress without a token unless it is a dry run; the
\* step that aborts for the missing token reads neither the CSV nor the
\* state file and makes no remote call.
C19_NoTokenAbortsFirst ==
    /\ [](pc # "idle" => (cfg.token \/ cfg.dry_run))
    /\ [][(run' = run + 1 /\ abort' = "no_token")
            => (pc' = "idle" /\ UNCHANGED <<input, state, file, shape, remote,
                                          faults>>)]_vars

C19_Witness ==
    /\ abort = "no_token" /\ pc = "idle" /\ run = MaxRuns
    /\ \E s \in Samples : Len(remote[s]) > 0

\* C20: no run is ended early by an exception other than the one raised for
\* the missing token.
C20_OnlyTokenAborts == abort \in {"none", "no_token"}

\* the sample's wild flag has been read and is not None
WildKnown(s) == "is_wild" \in input[s].known /\ input[s].is_wild # "None"

\* C21: once a remote record exists for a sample whose wild flag is known,
\* exactly one vote request is sent for each of its records over all runs:
\* never a second one, and one has been sent when the sample's processing
\* ends, in the except clause too.
C21_ExactlyOneVote ==
    \A s \in Samples :
        WildKnown(s) =>
            /\ \A k \in 1..Len(votes[s]) : votes[s][k] <= 1
            /\ (Ended /\ cur = s /\ outcome \in {"done", "error"})
                    => \A k \in 1..Len(votes[s]) : votes[s][k] = 1

\* C22: a vote request that fails, by its status or by an exception, leaves
\* the sample's entry and the state file as a vote that succeeded leaves them:
\* the entry replaced by {id, uuid} and written.
C22_VoteFailureLeavesEntry ==
    [][(pc = "vote" /\ pc' = "loop")
            => /\ state'[idx] = FinishEntry(state[idx], loc.resp)
               /\ file'[idx] = state'[idx]]_vars

\* the positions of the loop body after the local checks
PastLocalChecks ==
    {"create", "poll", "count0", "before", "upload", "after", "final", "vote", "finish"}

\* C23: for a sample whose folder holds no photo, no record is ever created
\* and no file uploaded; the loop body ends as skipped and goes on to the
\* next row.
C23_NoPhotosSkipped ==
    /\ \A s \in Samples :
        ("folder" \in input[s].known /\ input[s].folder = {})
            => /\ remote[s] = <<>>
               /\ (cur = s => (nCreate = 0 /\ uploads = <<>> /\ pc \notin PastLocalChecks))
    /\ (Ended /\ outcome = "no_photos") => (idx = cur + 1 /\ state[cur] = entry0)

C23_Witness ==
    /\ Ended /\ outcome = "no_photos" /\ searched
    /\ input[cur].folder = {}

\* C24: for a sample whose coordinates cannot be resolved, no record is
\* created and no file uploaded in the run; the loop body ends as skipped and
\* goes on to the next row.
C24_NoCoordsSkipped ==
    /\ \A s \in Samples :
        (cur = s /\ "coords" \in input[s].known /\ ~input[s].coords_ok)
            => (nCreate = 0 /\ uploads = <<>> /\ pc \notin PastLocalChecks)
    /\ (Ended /\ outcome = "no_coords") => (idx = cur + 1 /\ state[cur] = entry0)

C24_Witness ==
    /\ Ended /\ outcome = "no_coords" /\ searched
    /\ input[cur].folder # {} /\ ~input[cur].coords_ok

C27_DryRunWritesNothing ==
    /\ []((pc # "idle" /\ cfg.dry_run)
            => (nCreate = 0 /\ uploads = <<>> /\ pc \notin PastLocalChecks))
    /\ [][(pc # "idle" /\ cfg.dry_run)
            => (file' = file /\ remote' = remote /\ votes' = votes)]_vars

C27_Witness ==
    /\ Ended /\ outcome = "dry_run" /\ cfg.dry_run
    /\ input[cur].folder # {} /\ input[cur].coords_ok

\* C30: collect_photos returns the files of a folder ordered by the numeric
\* value of the digit run of their names, and the files are passed to
\* upload_media in that order.
C30_NaturalOrder ==
    /\ \A folder \in Folders :
        LET q == CollectPhotos(folder) IN
            /\ Len(q) = Cardinality(folder)
            /\ {q[j] : j \in 1..Len(q)} = folder
            /\ \A a, b \in 1..Len(q) : a < b => q[a].num < q[b].num
    /\ \A a, b \in 1..Len(uploads) : a < b => uploads[a] <= uploads[b]

C30_Witness ==
    /\ Len(uploads) = 2
    /\ uploads[1] = FileNum(1) /\ uploads[2] = FileNum(2)
    /\ StrLess(Digits(uploads[2]), Digits(uploads[1]))

\* the row passed the filter of run(): the loop body works on it
RowKept == pout.stage \in {"kept", "searched", "resolved", "no_coords", "params"}

\* C26: a row whose sample id cell is missing or empty (blank after strip) is
\* dropped by the filter: the loop body, and so every remote call, is never
\* reached for it.
C26_NoSampleIdDropped ==
    RowKept => (~pin.sample_id.nan /\ Strip(pin.sample_id.s) # <<>>)

\* C28: the tag list of the create request holds, as one of its tags, the
\* very tag that the tag search for the sample queries.
C28_TagListCarriesSearchTag ==
    pout.stage = "params" => pout.unique_tag \in SplitTags(pout.tag_list, <<>>)

\* C29: with EPSG "4326" and both coordinates present,
\* resolve_lat_lon_from_xy returns (y_coord, x_coord), unchanged.
C29_GeographicIsYX ==
    (pout.stage \in {"resolved", "no_coords", "params"} /\ pin.epsg = "4326"
        /\ pin.x_coord.some /\ pin.y_coord.some)
        => pout.latlon = <<pin.y_coord, pin.x_coord>>

C29_Witness ==
    /\ pout.stage = "resolved" /\ pin.epsg = "4326"
    /\ pin.x_coord = Some(7) /\ pin.y_coord = Some(46)
    /\ pout.latlon = <<Some(46), Some(7)>>

\* C31: whenever create_observation is about to be called, for the first
\* attempt and for every retry, a tag search for the sample has been made
\* since the loop body began on it or since the previous attempt.
C31_SearchBeforeEachCreate == pc = "create" => loc.checked

\* C32: for a sample whose entry held a record id and was not complete when
\* the loop body began on it, create_observation is not called in the run.
C32_StoredIdNeverCreates ==
    (cur # 0 /\ entry0.present /\ entry0.id # 0 /\ ~entry0.complete) => nCreate = 0

\* C33: no remote record of a sample ever holds more photos than the sample's
\* folder holds files.
C33_NoMorePhotosThanLocal ==
    \A s \in Samples :
        "folder" \in input[s].known
            => \A k \in 1..Len(remote[s]) :
                    RemoteCount(s, k) <= Cardinality(input[s].folder)

\* the run is at a create call that the bound on the records of a sample
\* keeps from succeeding
RecordsCapped == pc = "create" /\ Len(remote[idx]) >= MaxRecords

IdentityKey(j) ==
    IF pin.readable[j] THEN <<"sha256", j>> ELSE <<"name|size", FileNum(j)>>

\* C35: in the per-photo loop the key of every file handled is its digest or,
\* when the digest cannot be computed, its name+size composite; and after the
\* short-circuit branch the entry holds that key for every local file.
C35_FallbackKeyInBothPaths ==
    /\ pout.stage \in {"photos", "done"}
            => \A j \in 1..Len(pout.keys) : pout.keys[j] = IdentityKey(j)
    /\ pout.stage = "marked"
            => \A j \in DOMAIN pin.readable : IdentityKey(j) \in pout.uploaded

\* row j is eligible: its upload flag is set (and it has a sample id)
Eligible(j) == pin.rows[j].inat_upload = "1" /\ pin.rows[j].sample_id # <<>>

\* the number of eligible rows up to row j
EligibleUpTo(j) == Cardinality({m \in 1..j : Eligible(m)})

\* C36: the loop body runs only for eligible rows, in CSV order, and, when a
\* limit is given, only for the first `limit` of them.
C36_OnlyEligibleWithinLimit ==
    \A a \in 1..Len(pout.called) :
        /\ Eligible(pout.called[a])
        /\ \A b \in 1..Len(pout.called) : a < b => pout.called[a] < pout.called[b]
        /\ pin.limit.given => EligibleUpTo(pout.called[a]) <= pin.limit.n

\* C37: the stages are started in the fixed order fetcher, location
\* formatter, emi id extracter, create directus fields, db updater, directus
\* link maker; a stage is started only after every stage before it exited
\* with status 0; after a stage that exits with another status the launcher
\* stops and starts no further stage.
C37_StagesInOrderStopAtFailure ==
    /\ Len(pout.started) <= 6
    /\ \A j \in 1..Len(pout.started) :
        /\ pout.started[j] =
             <<"fetcher", "location_formatter", "emi_id_extracter",
               "create_directus_fields", "db_updater", "directus_link_maker">>[j]
        /\ \A m \in 1..(j - 1) : pin[m] = 0
    /\ pout.stage = "stopped" =>
            (pout.started # <<>> /\ pin[Len(pout.started)] # 0)
    /\ pout.stage = "done" => (Len(pout.started) = 6 /\ \A m \in 1..6 : pin[m] = 0)

C37_Witness ==
    /\ pout.stage = "stopped"
    /\ pout.started = <<"fetcher", "location_formatter", "emi_id_extracter">>
    /\ pin[3] # 0 /\ pin[4] = 0

====
